---------------------------- MODULE Spec2Model ----------------------------
(***************************************************************************)
(* Model of src/language-markdown/utils.js: splitText (with appendNode),   *)
(* getOrderedListItemInfo, hasGitDiffFriendlyOrderedList, mapAst and       *)
(* isAutolink.                                                             *)
(*                                                                         *)
(* A JavaScript string is a sequence of UTF-16 code units (integers).      *)
(* JavaScript indexes are 0-based and kept 0-based in the variables; the   *)
(* element at JavaScript index i of a sequence s is s[i + 1].              *)
(***************************************************************************)
EXTENDS Integers, Sequences, FiniteSets, TLC

VARIABLES
    \* ---- splitText ----
    text,          \* the argument of splitText
    tokens,        \* text.split(/([\t\n ]+)/)
    index,         \* index of the outer for loop
    innerTokens,   \* token.split(new RegExp(`(${cjkPattern})`))
    innerIndex,    \* index of the inner for loop
    nodes,         \* the array of TextNode being built
    pc,            \* position inside splitText
    \* ---- hasGitDiffFriendlyOrderedList ----
    listItems,     \* the items the list was written with (number, source)
    listNode,      \* the argument node: ordered, children with positions
    originalText,  \* options.originalText
    listOutcome,   \* "pending", "return" or "throw"
    listValue,     \* the returned boolean (FALSE until there is one)
    \* ---- mapAst ----
    heap,          \* the objects and arrays: address -> object
    heap0,         \* the heap when mapAst was called
    ast,           \* the argument ast: the address of the root
    handlerKind,   \* which handler is passed to mapAst
    stack,         \* the active calls of preorder that are inside .map
    calls,         \* the calls of handler so far, in order
    mapResult,     \* the address mapAst returned (Undefined before)
    mapPc,         \* "call", "running", "done"
    \* ---- isAutolink ----
    linkNode,      \* the argument of isAutolink
    linkOutcome,   \* "pending", "return" or "throw"
    linkValue      \* the returned boolean (FALSE until there is one)

splitVars == <<text, tokens, index, innerTokens, innerIndex, nodes, pc>>
listVars == <<listItems, listNode, originalText, listOutcome, listValue>>

mapVars == <<heap, heap0, ast, handlerKind, stack, calls, mapResult, mapPc>>
linkVars == <<linkNode, linkOutcome, linkValue>>

notSplitVars == <<listVars, mapVars, linkVars>>
notListVars == <<splitVars, mapVars, linkVars>>
notMapVars == <<splitVars, listVars, linkVars>>
notLinkVars == <<splitVars, listVars, mapVars>>

vars == <<splitVars, listVars, mapVars, linkVars>>

-----------------------------------------------------------------------------
(* Bounds of the model.                                                    *)

\* longest enumerated input string of splitText
MaxLen == 4
\* most items of an enumerated list
MaxItems == 4
\* most nodes of an enumerated tree
MaxNodes == 4
\* most children of an enumerated link node
MaxChildren == 2

-----------------------------------------------------------------------------
(* Characters.                                                             *)

Tab == 9
Newline == 10
Space == 32
FullWidthSpace == 12288

\* "C", an ordinary letter
LatinC == 67
\* "+", ASCII punctuation
Plus == 43
\* U+8A00, a Han ideograph
Han == 35328
\* U+D55C, a Hangul syllable
Hangul == 54620
\* U+30FB, the katakana middle dot, a CJK punctuation character
MiddleDot == 12539

\* the character class [\t\n ] of the outer split
IsSplitWhitespace(c) == c \in {Tab, Newline, Space}

\* cjkPattern (constants.evaluate.js): one character of the CJK ranges
IsCjk(c) ==
    \/ c >= 11904 /\ c <= 12351     \* CJK radicals .. CJK symbols and punctuation
    \/ c >= 12352 /\ c <= 12543     \* Hiragana, Katakana
    \/ c >= 13312 /\ c <= 40959     \* CJK unified ideographs (with extension A)
    \/ c >= 44032 /\ c <= 55203     \* Hangul syllables
    \/ c >= 65281 /\ c <= 65376     \* full-width forms

\* kRegex (constants.evaluate.js): a Korean character
IsK(c) ==
    \/ c >= 4352 /\ c <= 4607       \* Hangul Jamo
    \/ c >= 44032 /\ c <= 55203     \* Hangul syllables

\* punctuationPattern (constants.evaluate.js): ASCII punctuation and the
\* Unicode punctuation classes
IsPunctuation(c) ==
    \/ c >= 33 /\ c <= 47
    \/ c >= 58 /\ c <= 64
    \/ c >= 91 /\ c <= 96
    \/ c >= 123 /\ c <= 126
    \/ c >= 12289 /\ c <= 12291     \* U+3001 .. U+3003
    \/ c >= 12296 /\ c <= 12305     \* CJK brackets
    \/ c = 12539                    \* U+30FB katakana middle dot
    \/ c = 65281 \/ c = 65292 \/ c = 65294 \/ c = 65311

\* punctuationRegex.test(x): x is a one-character string, or undefined when
\* it was read from an empty string ("undefined" holds no punctuation)
punctuationRegexTest(s) == \E i \in 1..Len(s) : IsPunctuation(s[i])

KIND_NON_CJK == "non-cjk"
KIND_CJ_LETTER == "cj-letter"
KIND_K_LETTER == "k-letter"
KIND_CJK_PUNCTUATION == "cjk-punctuation"

-----------------------------------------------------------------------------
(* String.prototype.split with a regular expression that has one capture   *)
(* group around the whole match.  Positions are 1-based here.              *)

RECURSIVE WhitespaceRunEnd(_, _)
WhitespaceRunEnd(s, q) ==
    IF q <= Len(s) /\ IsSplitWhitespace(s[q]) THEN WhitespaceRunEnd(s, q + 1) ELSE q

\* the position after the match of the regular expression at q, 0 if none
MatchEnd(re, s, q) ==
    IF re = "whitespace"
    THEN (IF IsSplitWhitespace(s[q]) THEN WhitespaceRunEnd(s, q) ELSE 0)
    ELSE (IF IsCjk(s[q]) THEN q + 1 ELSE 0)

RECURSIVE SplitLoop(_, _, _, _, _)
SplitLoop(re, s, p, q, acc) ==
    IF q > Len(s)
    THEN Append(acc, SubSeq(s, p, Len(s)))
    ELSE LET e == MatchEnd(re, s, q)
         IN  IF e = 0 \/ e = p
             THEN SplitLoop(re, s, p, q + 1, acc)
             ELSE SplitLoop(re, s, e, e,
                            acc \o <<SubSeq(s, p, q - 1), SubSeq(s, q, e - 1)>>)

Split(re, s) == SplitLoop(re, s, 1, 1, <<>>)

-----------------------------------------------------------------------------
(* splitText                                                               *)

Contains(s, c) == \E i \in 1..Len(s) : s[i] = c

WhitespaceNode(value) == [type |-> "whitespace", value |-> value]

WordNode(value, kind, leading, trailing) ==
    [type |-> "word", value |-> value, kind |-> kind,
     hasLeadingPunctuation |-> leading, hasTrailingPunctuation |-> trailing]

\* as isBetween, for the one order of the two kinds only
isBetween_Ordered(lastNode, node, kind1, kind2) ==
    lastNode.kind = kind1 /\ node.kind = kind2

isBetween(lastNode, node, kind1, kind2) ==
    \/ lastNode.kind = kind1 /\ node.kind = kind2
    \/ lastNode.kind = kind2 /\ node.kind = kind1

\* as appendNode, without the test lastNode?.type === "word" (the kind of a
\* whitespace node is undefined, so that isBetween is false for it)
appendNode_NoLastTypeCheck(ns, node) ==
    IF /\ Len(ns) > 0
       /\ ns[Len(ns)].type = "word" =>
              ~isBetween(ns[Len(ns)], node, KIND_NON_CJK, KIND_CJK_PUNCTUATION)
       /\ ~(\E value \in {ns[Len(ns)].value, node.value} :
                Contains(value, FullWidthSpace))
    THEN ns \o <<WhitespaceNode(<<>>), node>>
    ELSE Append(ns, node)

\* as appendNode, with the zero-width token only where a non-cjk word meets
\* a CJK character
appendNode_OnlyAtScriptChange(ns, node) ==
    IF /\ Len(ns) > 0
       /\ ns[Len(ns)].type = "word"
       /\ ~isBetween(ns[Len(ns)], node, KIND_NON_CJK, KIND_CJK_PUNCTUATION)
       /\ (ns[Len(ns)].kind = KIND_NON_CJK) # (node.kind = KIND_NON_CJK)
       /\ ~(\E value \in {ns[Len(ns)].value, node.value} :
                Contains(value, FullWidthSpace))
    THEN ns \o <<WhitespaceNode(<<>>), node>>
    ELSE Append(ns, node)

\* the nodes array after appendNode(node)
appendNode(ns, node) ==
    IF /\ Len(ns) > 0
       /\ ns[Len(ns)].type = "word"
       /\ ~isBetween(ns[Len(ns)], node, KIND_NON_CJK, KIND_CJK_PUNCTUATION)
       /\ ~(\E value \in {ns[Len(ns)].value, node.value} :
                Contains(value, FullWidthSpace))
    THEN ns \o <<WhitespaceNode(<<>>), node>>
    ELSE Append(ns, node)

\* s[0] and s.at(-1), the empty sequence standing for undefined
FirstChar(s) == IF s = <<>> THEN <<>> ELSE <<s[1]>>
LastChar(s) == IF s = <<>> THEN <<>> ELSE <<s[Len(s)]>>

NonCjkWord(innerToken) ==
    WordNode(innerToken, KIND_NON_CJK,
             punctuationRegexTest(FirstChar(innerToken)),
             punctuationRegexTest(LastChar(innerToken)))

CjkWord(innerToken) ==
    IF punctuationRegexTest(innerToken)
    THEN WordNode(innerToken, KIND_CJK_PUNCTUATION, TRUE, TRUE)
    ELSE WordNode(innerToken,
                  IF \E i \in 1..Len(innerToken) : IsK(innerToken[i])
                  THEN KIND_K_LETTER ELSE KIND_CJ_LETTER,
                  FALSE, FALSE)

\* the assertion at the end of splitText
NoConsecutiveWhitespace(ns) ==
    \A i \in 2..Len(ns) :
        ~(ns[i - 1].type = "whitespace" /\ ns[i].type = "whitespace")

Alphabet ==
    {Tab, Newline, Space, LatinC, Plus, Han, Hangul, MiddleDot, FullWidthSpace}

RECURSIVE StringsUpTo(_)
StringsUpTo(n) ==
    IF n = 0 THEN {<<>>}
    ELSE LET shorter == StringsUpTo(n - 1)
         IN  shorter \cup {Append(s, c) : s \in {t \in shorter : Len(t) = n - 1},
                                          c \in Alphabet}

\* "hello" + U+4E16 U+754C, and "foo" + U+3002
HelloSekai == <<104, 101, 108, 108, 111, 19990, 30028>>
FooFullStop == <<102, 111, 111, 12290>>

Inputs == StringsUpTo(MaxLen) \cup {HelloSekai, FooFullStop}

SplitIdle ==
    /\ text = <<>>
    /\ tokens = <<>>
    /\ index = 0
    /\ innerTokens = <<>>
    /\ innerIndex = 0
    /\ nodes = <<>>
    /\ pc = "idle"

SplitInit ==
    /\ text \in Inputs
    /\ tokens = <<>>
    /\ index = 0
    /\ innerTokens = <<>>
    /\ innerIndex = 0
    /\ nodes = <<>>
    /\ pc = "start"

\* const tokens = text.split(/([\t\n ]+)/)
SplitOuter ==
    /\ pc = "start"
    /\ tokens' = Split("whitespace", text)
    /\ index' = 0
    /\ pc' = "outer"
    /\ UNCHANGED <<text, innerTokens, innerIndex, nodes>>
    /\ UNCHANGED notSplitVars

\* one iteration of the outer loop that does not enter the inner loop:
\* a whitespace token, or an empty first or last token
OuterStep ==
    /\ pc = "outer"
    /\ index < Len(tokens)
    /\ LET token == tokens[index + 1]
       IN  \/ /\ index % 2 = 1
              /\ nodes' = Append(nodes,
                    WhitespaceNode(IF Contains(token, Newline)
                                   THEN <<Newline>> ELSE <<Space>>))
           \/ /\ index % 2 # 1
              /\ (index = 0 \/ index = Len(tokens) - 1) /\ token = <<>>
              /\ nodes' = nodes
    /\ index' = index + 1
    /\ UNCHANGED <<text, tokens, innerTokens, innerIndex, pc>>
    /\ UNCHANGED notSplitVars

\* const innerTokens = token.split(new RegExp(`(${cjkPattern})`))
SplitInner ==
    /\ pc = "outer"
    /\ index < Len(tokens)
    /\ index % 2 # 1
    /\ ~((index = 0 \/ index = Len(tokens) - 1) /\ tokens[index + 1] = <<>>)
    /\ innerTokens' = Split("cjk", tokens[index + 1])
    /\ innerIndex' = 0
    /\ pc' = "inner"
    /\ UNCHANGED <<text, tokens, index, nodes>>
    /\ UNCHANGED notSplitVars

\* as InnerIteration, skipping the first and the last inner token whether
\* empty or not
InnerIteration_DropsBoundary(ns, its, ii) ==
    LET innerToken == its[ii + 1]
    IN  IF ii = 0 \/ ii = Len(its) - 1
        THEN ns
        ELSE IF ii % 2 = 0
        THEN (IF innerToken # <<>>
              THEN appendNode(ns, NonCjkWord(innerToken))
              ELSE ns)
        ELSE appendNode(ns, CjkWord(innerToken))

\* as InnerIteration, without the test innerToken !== "" of a non-CJK token
InnerIteration_KeepsEmpty(ns, its, ii) ==
    LET innerToken == its[ii + 1]
    IN  IF (ii = 0 \/ ii = Len(its) - 1) /\ innerToken = <<>>
        THEN ns
        ELSE IF ii % 2 = 0
        THEN appendNode(ns, NonCjkWord(innerToken))
        ELSE appendNode(ns, CjkWord(innerToken))

\* the nodes array after the iteration innerIndex of the inner loop
InnerIteration(ns, its, ii) ==
    LET innerToken == its[ii + 1]
    IN  IF (ii = 0 \/ ii = Len(its) - 1) /\ innerToken = <<>>
        THEN ns
        ELSE IF ii % 2 = 0
        THEN (IF innerToken # <<>>
              THEN appendNode(ns, NonCjkWord(innerToken))
              ELSE ns)
        ELSE appendNode(ns, CjkWord(innerToken))

\* one iteration of the inner loop
InnerStep ==
    /\ pc = "inner"
    /\ innerIndex < Len(innerTokens)
    /\ nodes' = InnerIteration(nodes, innerTokens, innerIndex)
    /\ innerIndex' = innerIndex + 1
    /\ UNCHANGED <<text, tokens, index, innerTokens, pc>>
    /\ UNCHANGED notSplitVars

\* the inner loop is over: the next iteration of the outer loop
InnerDone ==
    /\ pc = "inner"
    /\ innerIndex = Len(innerTokens)
    /\ index' = index + 1
    /\ pc' = "outer"
    /\ UNCHANGED <<text, tokens, innerTokens, innerIndex, nodes>>
    /\ UNCHANGED notSplitVars

\* the outer loop is over: the assertion (of a build that is not a production
\* build), then return nodes
SplitReturn ==
    /\ pc = "outer"
    /\ index = Len(tokens)
    /\ pc' = IF NoConsecutiveWhitespace(nodes) THEN "done" ELSE "AssertionError"
    /\ UNCHANGED <<text, tokens, index, innerTokens, innerIndex, nodes>>
    /\ UNCHANGED notSplitVars

SplitNext ==
    \/ SplitOuter
    \/ OuterStep
    \/ SplitInner
    \/ InnerStep
    \/ InnerDone
    \/ SplitReturn

-----------------------------------------------------------------------------
(* getOrderedListItemInfo and hasGitDiffFriendlyOrderedList                *)

\* \s of a regular expression (the characters that can occur here)
IsRegexWhitespace(c) == c \in {9, 10, 11, 12, 13, 32, 160, 12288, 65279}

\* \d of a regular expression
IsDigit(c) == c >= 48 /\ c <= 57

RECURSIVE SkipWhitespace(_, _)
SkipWhitespace(s, i) ==
    IF i <= Len(s) /\ IsRegexWhitespace(s[i]) THEN SkipWhitespace(s, i + 1) ELSE i

RECURSIVE SkipDigits(_, _)
SkipDigits(s, i) ==
    IF i <= Len(s) /\ IsDigit(s[i]) THEN SkipDigits(s, i + 1) ELSE i

\* string.slice(start, end) for 0 <= start, 0 <= end
Slice(s, start, end) ==
    SubSeq(s, start + 1, IF end > Len(s) THEN Len(s) ELSE end)

\* slice.match(/^\s*(\d+)(\.|\))(\s*)/) and the destructuring of its result:
\* destructuring null throws a TypeError
getOrderedListItemInfo(orderListItem, sourceText) ==
    LET slice == Slice(sourceText, orderListItem.position.start.offset,
                       orderListItem.position.end.offset)
        a == SkipWhitespace(slice, 1)
        b == SkipDigits(slice, a)
        c == SkipWhitespace(slice, b + 1)
    IN  IF b > a /\ b <= Len(slice) /\ slice[b] \in {46, 41}
        THEN [threw |-> FALSE,
              numberText |-> SubSeq(slice, a, b - 1),
              marker |-> <<slice[b]>>,
              leadingSpaces |-> SubSeq(slice, b + 1, c - 1)]
        ELSE [threw |-> TRUE]

\* Number(numberText) for a string of decimal digits
RECURSIVE Number(_)
Number(digits) ==
    IF digits = <<>> THEN 0
    ELSE 10 * Number(SubSeq(digits, 1, Len(digits) - 1))
         + (digits[Len(digits)] - 48)

Return(value) == [outcome |-> "return", value |-> value]
Throw == [outcome |-> "throw", value |-> FALSE]

\* as hasGitDiffFriendlyOrderedList, without the branch for a first number 0
hasGitDiffFriendlyOrderedList_IgnoresThird(node, options) ==
    IF ~node.ordered THEN Return(FALSE)
    ELSE IF Len(node.children) < 2 THEN Return(FALSE)
    ELSE
    LET first == getOrderedListItemInfo(node.children[1], options.originalText)
        second == getOrderedListItemInfo(node.children[2], options.originalText)
    IN  IF first.threw THEN Throw
        ELSE IF second.threw THEN Throw
        ELSE Return(Number(second.numberText) = 1)

\* as hasGitDiffFriendlyOrderedList, reading the third item before the test
\* of the first number
hasGitDiffFriendlyOrderedList_EagerThird(node, options) ==
    IF ~node.ordered THEN Return(FALSE)
    ELSE IF Len(node.children) < 2 THEN Return(FALSE)
    ELSE
    LET first == getOrderedListItemInfo(node.children[1], options.originalText)
        second == getOrderedListItemInfo(node.children[2], options.originalText)
    IN  IF first.threw THEN Throw
        ELSE IF second.threw THEN Throw
        ELSE IF Len(node.children) > 2
        THEN LET third == getOrderedListItemInfo(node.children[3],
                                                 options.originalText)
             IN  IF third.threw THEN Throw
                 ELSE IF Number(first.numberText) = 0
                 THEN Return(Number(second.numberText) = 1
                             /\ Number(third.numberText) = 1)
                 ELSE Return(Number(second.numberText) = 1)
        ELSE Return(Number(second.numberText) = 1)

hasGitDiffFriendlyOrderedList(node, options) ==
    IF ~node.ordered THEN Return(FALSE)
    ELSE IF Len(node.children) < 2 THEN Return(FALSE)
    ELSE
    LET first == getOrderedListItemInfo(node.children[1], options.originalText)
        second == getOrderedListItemInfo(node.children[2], options.originalText)
    IN  IF first.threw THEN Throw
        ELSE IF second.threw THEN Throw
        ELSE
        LET firstNumber == Number(first.numberText)
            secondNumber == Number(second.numberText)
        IN  IF firstNumber = 0 /\ Len(node.children) > 2
            THEN LET third == getOrderedListItemInfo(node.children[3],
                                                     options.originalText)
                 IN  IF third.threw THEN Throw
                     ELSE Return(secondNumber = 1
                                 /\ Number(third.numberText) = 1)
            ELSE Return(secondNumber = 1)

\* The list items a list can be written with: the number the item was given
\* (-1: the text is no ordered list item) and its source text.
ItemSources ==
    { [number |-> 0,  source |-> <<48, 46, 32, 120>>],        \* "0. x"
      [number |-> 1,  source |-> <<49, 46, 32, 120>>],        \* "1. x"
      [number |-> 2,  source |-> <<50, 46, 32, 120>>],        \* "2. x"
      [number |-> 1,  source |-> <<32, 48, 49, 41, 120>>],    \* " 01)x"
      [number |-> 0,  source |-> <<48, 48, 46>>],             \* "00."
      [number |-> 10, source |-> <<49, 48, 46, 9, 120>>],     \* "10.\tx"
      [number |-> -1, source |-> <<45, 32, 120>>],            \* "- x"
      [number |-> -1, source |-> <<49, 32, 120>>] }           \* "1 x"

RECURSIVE ItemListsUpTo(_)
ItemListsUpTo(n) ==
    IF n = 0 THEN {<<>>}
    ELSE LET shorter == ItemListsUpTo(n - 1)
         IN  shorter \cup {Append(l, i) : l \in {t \in shorter : Len(t) = n - 1},
                                          i \in ItemSources}

\* the source text of a list: its items, each followed by a newline
RECURSIVE JoinItems(_)
JoinItems(items) ==
    IF items = <<>> THEN <<>>
    ELSE items[1].source \o <<10>> \o JoinItems(Tail(items))

\* the offset at which item k (1-based) starts in JoinItems(items)
RECURSIVE ItemStart(_, _)
ItemStart(items, k) ==
    IF k = 1 THEN 0
    ELSE ItemStart(items, k - 1) + Len(items[k - 1].source) + 1

\* the children the parser gives the list node
ParsedChildren(items) ==
    [k \in 1..Len(items) |->
        [type |-> "listItem",
         position |->
            [start |-> [offset |-> ItemStart(items, k)],
             end |-> [offset |-> ItemStart(items, k) + Len(items[k].source)]]]]

ListIdle ==
    /\ listItems = <<>>
    /\ listNode = [type |-> "list", ordered |-> FALSE, children |-> <<>>]
    /\ originalText = <<>>
    /\ listOutcome = "idle"
    /\ listValue = FALSE

ListInit ==
    /\ listItems \in ItemListsUpTo(MaxItems)
    /\ \E ordered \in BOOLEAN :
          listNode = [type |-> "list", ordered |-> ordered,
                      children |-> ParsedChildren(listItems)]
    /\ originalText = JoinItems(listItems)
    /\ listOutcome = "pending"
    /\ listValue = FALSE

\* the call hasGitDiffFriendlyOrderedList(listNode, {originalText})
CallHasGitDiffFriendlyOrderedList ==
    /\ listOutcome = "pending"
    /\ LET r == hasGitDiffFriendlyOrderedList(listNode,
                    [originalText |-> originalText])
       IN  /\ listOutcome' = r.outcome
           /\ listValue' = r.value
    /\ UNCHANGED <<listItems, listNode, originalText>>
    /\ UNCHANGED notListVars

ListNext == CallHasGitDiffFriendlyOrderedList

-----------------------------------------------------------------------------
(* mapAst                                                                  *)
(*                                                                         *)
(* Objects live in a heap, so that "the same object" and "an equal object" *)
(* differ.  A node is [kind |-> "object", type, children], children being  *)
(* the address of an array or Undefined; an array is [kind |-> "array",    *)
(* elems], elems being the addresses of its elements.                      *)

\* the value of a missing property, and of no address
Undefined == 0
\* the index the root is visited with
Null == -1

Max(S) == CHOOSE x \in S : \A y \in S : y <= x

\* the heap with a new object, at a new address
Alloc(h, obj) == (Max(DOMAIN h) + 1 :> obj) @@ h
NewAddress(h) == Max(DOMAIN h) + 1

\* handler(node, index, parentStack): the heap after the call and the address
\* it returns.  "identity" returns its argument; "replace" returns a new
\* object of another type with the same children array; "prune" returns, for
\* a node of type "b", a new object without children, and its argument
\* otherwise.
handler(h, node, idx, parentStack) ==
    IF handlerKind = "replace"
    THEN [heap |-> Alloc(h, [h[node] EXCEPT !.type = "replaced"]),
          returned |-> NewAddress(h)]
    ELSE IF handlerKind = "prune" /\ h[node].type = "b"
    THEN [heap |-> Alloc(h, [h[node] EXCEPT !.children = Undefined]),
          returned |-> NewAddress(h)]
    ELSE [heap |-> h, returned |-> node]

\* as ShallowCopy, without the copy: const newNode = handler(...)
ShallowCopy_Alias(h, obj) == [heap |-> h, newNode |-> obj]

\* { ...obj }: a new object with the properties of obj
ShallowCopy(h, obj) == [heap |-> Alloc(h, h[obj]), newNode |-> NewAddress(h)]

\* as ChildParentStack, with the nearest ancestor last
ChildParentStack_NearestLast(newNode, parentStack) == Append(parentStack, newNode)

\* [newNode, ...parentStack]
ChildParentStack(newNode, parentStack) == <<newNode>> \o parentStack

\* preorder returns result to the call of preorder that is on top of stack
\* st, or to the caller of mapAst
ReturnNode(h, st, result) ==
    /\ heap' = h
    /\ IF st = <<>>
       THEN /\ mapResult' = result
            /\ mapPc' = "done"
            /\ stack' = st
       ELSE /\ stack' = <<[st[1] EXCEPT !.results = Append(@, result),
                                         !.i = @ + 1]>> \o Tail(st)
            /\ mapPc' = "running"
            /\ mapResult' = mapResult

\* preorder(node, idx, parentStack), called with the stack st, up to the
\* start of newNode.children.map
Preorder(node, idx, parentStack, st) ==
    LET called == handler(heap, node, idx, parentStack)
        copied == ShallowCopy(called.heap, called.returned)
        newNode == copied.newNode
    IN  /\ calls' = Append(calls, [node |-> node, index |-> idx,
                                   parentStack |-> parentStack,
                                   returned |-> called.returned,
                                   newNode |-> newNode])
        /\ IF copied.heap[newNode].children # Undefined
           THEN /\ heap' = copied.heap
                /\ stack' = <<[newNode |-> newNode,
                               array |-> copied.heap[newNode].children,
                               i |-> 0,
                               results |-> <<>>,
                               parentStack |-> parentStack]>> \o st
                /\ mapPc' = "running"
                /\ mapResult' = mapResult
           ELSE ReturnNode(copied.heap, st, newNode)

\* the trees: node k > 1 is a child of node parent[k] < k, the children of a
\* node in the order of their numbers
ParentMaps(n) == [2..n -> 1..(n - 1)]

ChildrenOf(parent, n, k) == {c \in 2..n : parent[c] = k}

RECURSIVE SortedSeq(_)
SortedSeq(S) ==
    IF S = {} THEN <<>>
    ELSE LET m == CHOOSE x \in S : \A y \in S : x <= y
         IN  <<m>> \o SortedSeq(S \ {m})

\* The heap of a tree: node k at address k, its children array at n + k.
\* A node without children has an empty array if it is in emptyArrays, and
\* no children property otherwise.
TreeHeap(n, parent, types, emptyArrays) ==
    LET hasArray(k) == ChildrenOf(parent, n, k) # {} \/ k \in emptyArrays
        addresses == (1..n) \cup {n + k : k \in {j \in 1..n : hasArray(j)}}
    IN  [a \in addresses |->
            IF a <= n
            THEN [kind |-> "object", type |-> types[a],
                  children |-> IF hasArray(a) THEN n + a ELSE Undefined]
            ELSE [kind |-> "array",
                  elems |-> SortedSeq(ChildrenOf(parent, n, a - n))]]

MapIdle ==
    /\ heap = <<>>
    /\ heap0 = <<>>
    /\ ast = Undefined
    /\ handlerKind = "none"
    /\ stack = <<>>
    /\ calls = <<>>
    /\ mapResult = Undefined
    /\ mapPc = "idle"

MapInit ==
    /\ \E n \in 1..MaxNodes :
          \E parent \in {p \in ParentMaps(n) : \A c \in 2..n : p[c] < c} :
             \E types \in [1..n -> {"a", "b"}] :
                \E emptyArrays \in SUBSET {k \in 1..n : ChildrenOf(parent, n, k) = {}} :
                   heap = TreeHeap(n, parent, types, emptyArrays)
    /\ heap0 = heap
    /\ ast = 1
    /\ handlerKind \in {"identity", "replace", "prune"}
    /\ stack = <<>>
    /\ calls = <<>>
    /\ mapResult = Undefined
    /\ mapPc = "call"

\* mapAst(ast, handler): preorder(ast, null, [])
MapAst ==
    /\ mapPc = "call"
    /\ Preorder(ast, Null, <<>>, <<>>)
    /\ UNCHANGED <<heap0, ast, handlerKind>>
    /\ UNCHANGED notMapVars

\* the callback of newNode.children.map for the next child
VisitChild ==
    /\ mapPc = "running"
    /\ stack # <<>>
    /\ LET frame == stack[1]
           elems == heap[frame.array].elems
       IN  /\ frame.i < Len(elems)
           /\ Preorder(elems[frame.i + 1], frame.i,
                       ChildParentStack(frame.newNode, frame.parentStack), stack)
    /\ UNCHANGED <<heap0, ast, handlerKind>>
    /\ UNCHANGED notMapVars

\* .map is over: newNode.children = the new array; return newNode
AttachChildren ==
    /\ mapPc = "running"
    /\ stack # <<>>
    /\ LET frame == stack[1]
           mapped == Alloc(heap, [kind |-> "array", elems |-> frame.results])
       IN  /\ frame.i = Len(heap[frame.array].elems)
           /\ ReturnNode([mapped EXCEPT ![frame.newNode].children = NewAddress(heap)],
                         Tail(stack), frame.newNode)
    /\ UNCHANGED <<heap0, ast, handlerKind, calls>>
    /\ UNCHANGED notMapVars

MapNext ==
    \/ MapAst
    \/ VisitChild
    \/ AttachChildren

-----------------------------------------------------------------------------
(* isAutolink                                                              *)

\* locStart and locEnd (loc.js)
locStart(node) == node.position.start.offset
locEnd(node) == node.position.end.offset

\* isAutolink(node); node.missing stands for an undefined or null argument,
\* node.hasChildren for the presence of the property children.  Reading
\* .length of undefined throws a TypeError.
isAutolink(node) ==
    IF node.missing \/ node.type # "link" THEN Return(FALSE)
    ELSE IF ~node.hasChildren THEN Throw
    ELSE IF Len(node.children) # 1 THEN Return(FALSE)
    ELSE LET child == node.children[1]
         IN  Return(locStart(node) = locStart(child)
                    /\ locEnd(node) = locEnd(child))

Positions ==
    {[start |-> [offset |-> s], end |-> [offset |-> e]] :
        s \in {0, 1}, e \in {19, 20}}

RECURSIVE ChildListsUpTo(_)
ChildListsUpTo(n) ==
    IF n = 0 THEN {<<>>}
    ELSE LET shorter == ChildListsUpTo(n - 1)
         IN  shorter \cup
             {Append(l, [type |-> "text", position |-> p]) :
                 l \in {t \in shorter : Len(t) = n - 1}, p \in Positions}

MissingNode ==
    [missing |-> TRUE, type |-> "undefined", hasChildren |-> FALSE,
     children |-> <<>>, position |-> [start |-> [offset |-> 0],
                                      end |-> [offset |-> 0]]]

LinkIdle ==
    /\ linkNode = MissingNode
    /\ linkOutcome = "idle"
    /\ linkValue = FALSE

LinkInit ==
    /\ \/ linkNode = MissingNode
       \/ \E type \in {"link", "text", "image"}, p \in Positions :
             \/ linkNode = [missing |-> FALSE, type |-> type,
                            hasChildren |-> FALSE, children |-> <<>>,
                            position |-> p]
             \/ \E children \in ChildListsUpTo(MaxChildren) :
                   linkNode = [missing |-> FALSE, type |-> type,
                               hasChildren |-> TRUE, children |-> children,
                               position |-> p]
    /\ linkOutcome = "pending"
    /\ linkValue = FALSE

\* the call isAutolink(linkNode)
CallIsAutolink ==
    /\ linkOutcome = "pending"
    /\ LET r == isAutolink(linkNode)
       IN  /\ linkOutcome' = r.outcome
           /\ linkValue' = r.value
    /\ UNCHANGED linkNode
    /\ UNCHANGED notLinkVars

LinkNext == CallIsAutolink

-----------------------------------------------------------------------------
(* Specifications: one per function under study.                           *)

InitSplit == SplitInit /\ ListIdle /\ MapIdle /\ LinkIdle
SpecSplit == InitSplit /\ [][SplitNext]_vars

InitList == SplitIdle /\ ListInit /\ MapIdle /\ LinkIdle
SpecList == InitList /\ [][ListNext]_vars

InitMap == SplitIdle /\ ListIdle /\ MapInit /\ LinkIdle
SpecMap == InitMap /\ [][MapNext]_vars

InitLink == SplitIdle /\ ListIdle /\ MapIdle /\ LinkInit
SpecLink == InitLink /\ [][LinkNext]_vars

-----------------------------------------------------------------------------
(* Properties of splitText.                                                *)

IsZeroWidth(n) == n.type = "whitespace" /\ n.value = <<>>
IsLiteralWhitespace(n) == n.type = "whitespace" /\ n.value # <<>>
IsCjkKind(k) == k \in {"cj-letter", "k-letter", "cjk-punctuation"}

RECURSIVE ConcatValues(_)
ConcatValues(ns) ==
    IF ns = <<>> THEN <<>> ELSE ns[1].value \o ConcatValues(Tail(ns))

RECURSIVE DeleteWhitespace(_)
DeleteWhitespace(s) ==
    IF s = <<>> THEN <<>>
    ELSE IF s[1] \in {9, 10, 32}
         THEN DeleteWhitespace(Tail(s))
         ELSE <<s[1]>> \o DeleteWhitespace(Tail(s))

\* C1: at every point of splitText, and so in its result, no two consecutive
\* tokens are both whitespace tokens (literal or zero-width), and the
\* assertion at the end of splitText never fires.
C1_NoAdjacentWhitespace ==
    /\ pc # "AssertionError"
    /\ \A i \in 1..(Len(nodes) - 1) :
          nodes[i].type = "whitespace" => nodes[i + 1].type # "whitespace"

\* a finished run whose result holds a literal and a zero-width whitespace token
C1_Witness ==
    /\ pc = "done"
    /\ \E i, j \in 1..Len(nodes) :
          IsZeroWidth(nodes[i]) /\ IsLiteralWhitespace(nodes[j])

\* C2: every step that appends a Word token appends either the word alone or
\* a zero-width whitespace token and then the word; it appends the zero-width
\* token if and only if the token appended before is a Word, the unordered
\* pair of the two kinds is not {non-cjk, cjk-punctuation}, and neither value
\* contains U+3000.
C2_ZeroWidthIffCondition ==
    [][ Len(nodes') > Len(nodes) /\ nodes'[Len(nodes')].type = "word" =>
          LET n == Len(nodes)
              word == nodes'[Len(nodes')]
              inserted == /\ Len(nodes') = n + 2
                          /\ nodes'[n + 1] = [type |-> "whitespace", value |-> <<>>]
              condition ==
                  /\ n > 0
                  /\ nodes[n].type = "word"
                  /\ {nodes[n].kind, word.kind} # {"non-cjk", "cjk-punctuation"}
                  /\ \A i \in 1..Len(nodes[n].value) : nodes[n].value[i] # 12288
                  /\ \A i \in 1..Len(word.value) : word.value[i] # 12288
          IN  /\ SubSeq(nodes', 1, n) = nodes
              /\ inserted \/ Len(nodes') = n + 1
              /\ inserted <=> condition ]_vars

\* a finished run with a non-cjk word directly followed by cjk punctuation
\* (no token between them) and cjk punctuation separated from a cj-letter by
\* a zero-width token
C2_Witness ==
    /\ pc = "done"
    /\ \E i \in 1..(Len(nodes) - 1) :
          /\ nodes[i].type = "word" /\ nodes[i].kind = "non-cjk"
          /\ nodes[i + 1].type = "word" /\ nodes[i + 1].kind = "cjk-punctuation"
    /\ \E i \in 1..(Len(nodes) - 2) :
          /\ nodes[i].type = "word" /\ nodes[i].kind = "cjk-punctuation"
          /\ IsZeroWidth(nodes[i + 1])
          /\ nodes[i + 2].type = "word" /\ nodes[i + 2].kind = "cj-letter"

\* C3 as stated: splitText("hello" U+4E16 U+754C) returns the four tokens
\* Word(hello), zero-width whitespace, Word(U+4E16), Word(U+754C).
C3_Original ==
    text = HelloSekai /\ pc = "done" =>
        nodes = << [type |-> "word", value |-> <<104, 101, 108, 108, 111>>,
                    kind |-> "non-cjk", hasLeadingPunctuation |-> FALSE,
                    hasTrailingPunctuation |-> FALSE],
                   [type |-> "whitespace", value |-> <<>>],
                   [type |-> "word", value |-> <<19990>>, kind |-> "cj-letter",
                    hasLeadingPunctuation |-> FALSE,
                    hasTrailingPunctuation |-> FALSE],
                   [type |-> "word", value |-> <<30028>>, kind |-> "cj-letter",
                    hasLeadingPunctuation |-> FALSE,
                    hasTrailingPunctuation |-> FALSE] >>

\* C3 amended: splitText("hello" U+4E16 U+754C) returns the five tokens
\* Word(hello), zero-width whitespace, Word(U+4E16), zero-width whitespace,
\* Word(U+754C): the two adjacent CJK letters are separated as well.
C3_HelloSekai ==
    text = HelloSekai /\ pc = "done" =>
        nodes = << [type |-> "word", value |-> <<104, 101, 108, 108, 111>>,
                    kind |-> "non-cjk", hasLeadingPunctuation |-> FALSE,
                    hasTrailingPunctuation |-> FALSE],
                   [type |-> "whitespace", value |-> <<>>],
                   [type |-> "word", value |-> <<19990>>, kind |-> "cj-letter",
                    hasLeadingPunctuation |-> FALSE,
                    hasTrailingPunctuation |-> FALSE],
                   [type |-> "whitespace", value |-> <<>>],
                   [type |-> "word", value |-> <<30028>>, kind |-> "cj-letter",
                    hasLeadingPunctuation |-> FALSE,
                    hasTrailingPunctuation |-> FALSE] >>

\* splitText("hello" U+4E16 U+754C) has returned
C3_Witness == text = HelloSekai /\ pc = "done" /\ Len(nodes) > 0

\* C5: the values of the returned tokens, concatenated in order, with tab,
\* newline and space deleted, are the input with tab, newline and space deleted.
C5_RoundTrip ==
    pc = "done" =>
        DeleteWhitespace(ConcatValues(nodes)) = DeleteWhitespace(text)

\* a finished run over an input with whitespace inside and at an end, whose
\* result holds a zero-width token
C5_Witness ==
    /\ pc = "done"
    /\ Len(text) >= 4
    /\ text[1] \in {9, 10, 32}
    /\ \E i \in 2..(Len(text) - 1) : text[i] \in {9, 10, 32}
    /\ \E i \in 1..Len(nodes) : IsZeroWidth(nodes[i])

\* C10: at every point of splitText, a zero-width whitespace token that has
\* been followed by its word stands between two Word tokens, at least one of
\* them of a CJK kind; a zero-width token is never the first token and never
\* stays the last one; and no Word token has an empty value.
C10_ZeroWidthBetweenWords ==
    /\ \A i \in 1..Len(nodes) :
          IsZeroWidth(nodes[i]) =>
              /\ i > 1
              /\ i < Len(nodes)
              /\ nodes[i - 1].type = "word"
              /\ nodes[i + 1].type = "word"
              /\ IsCjkKind(nodes[i - 1].kind) \/ IsCjkKind(nodes[i + 1].kind)
    /\ \A i \in 1..Len(nodes) :
          nodes[i].type = "word" => nodes[i].value # <<>>

\* a finished run with a zero-width token between a non-cjk word and a CJK
\* letter, and with literal whitespace elsewhere
C10_Witness ==
    /\ pc = "done"
    /\ \E i \in 2..(Len(nodes) - 1) :
          /\ IsZeroWidth(nodes[i])
          /\ nodes[i - 1].kind = "non-cjk"
          /\ nodes[i + 1].kind \in {"cj-letter", "k-letter"}
    /\ \E j \in 1..Len(nodes) : IsLiteralWhitespace(nodes[j])

-----------------------------------------------------------------------------
(* Properties of hasGitDiffFriendlyOrderedList.                            *)

\* the number item k (0-based) was written with; -1 if it is malformed
ItemNumber(k) == listItems[k + 1].number

\* C4: for a list whose read items are well-formed the call returns, and it
\* returns: false if the list is not ordered; false with fewer than 2 items;
\* with item 0 numbered 0 and more than 2 items, true iff items 1 and 2 are
\* both numbered 1; otherwise true iff item 1 is numbered 1.
C4_DecisionRule ==
    LET n == Len(listItems)
        readWellFormed ==
            \/ ~listNode.ordered
            \/ n < 2
            \/ /\ ItemNumber(0) >= 0
               /\ ItemNumber(1) >= 0
               /\ (ItemNumber(0) = 0 /\ n > 2) => ItemNumber(2) >= 0
        expected ==
            IF ~listNode.ordered THEN FALSE
            ELSE IF n < 2 THEN FALSE
            ELSE IF ItemNumber(0) = 0 /\ n > 2
                 THEN ItemNumber(1) = 1 /\ ItemNumber(2) = 1
                 ELSE ItemNumber(1) = 1
    IN  (listOutcome \notin {"idle", "pending"} /\ readWellFormed) =>
            (listOutcome = "return" /\ listValue = expected)

\* the call returned false for an ordered list numbered 0, 1, 2, ...
C4_Witness ==
    /\ listOutcome = "return"
    /\ listNode.ordered
    /\ listValue = FALSE
    /\ Len(listItems) > 2
    /\ ItemNumber(0) = 0 /\ ItemNumber(1) = 1 /\ ItemNumber(2) = 2

\* C9: getOrderedListItemInfo throws exactly for the items whose source text
\* does not match the pattern, and hasGitDiffFriendlyOrderedList throws
\* exactly when the list is ordered, has at least 2 items, and item 0 or
\* item 1 is malformed, or item 0 is numbered 0, there are more than 2 items
\* and item 2 is malformed.
C9_FailsExactlyOnMalformedReadItem ==
    LET n == Len(listItems)
        readMalformed ==
            /\ listNode.ordered
            /\ n >= 2
            /\ \/ ItemNumber(0) < 0
               \/ ItemNumber(1) < 0
               \/ ItemNumber(0) = 0 /\ n > 2 /\ ItemNumber(2) < 0
    IN  listOutcome \notin {"idle", "pending"} =>
            /\ \A k \in 1..n :
                  getOrderedListItemInfo(listNode.children[k], originalText).threw
                      <=> listItems[k].number < 0
            /\ listOutcome = "throw" <=> readMalformed

\* the call threw on a malformed item 2 after well-formed items 0 and 1
C9_Witness ==
    /\ listOutcome = "throw"
    /\ Len(listItems) > 2
    /\ ItemNumber(0) = 0 /\ ItemNumber(1) >= 0 /\ ItemNumber(2) < 0

\* the call returned although an item it did not read is malformed
C9_WitnessUnread ==
    /\ listOutcome = "return"
    /\ listNode.ordered
    /\ Len(listItems) > 2
    /\ ItemNumber(0) > 0 /\ ItemNumber(2) < 0

-----------------------------------------------------------------------------
(* Properties of mapAst.                                                   *)

\* the nodes at addresses a1 of heap h1 and a2 of heap h2 have the same type
\* and equal children, recursively
RECURSIVE StructurallyEqual(_, _, _, _)
StructurallyEqual(h1, a1, h2, a2) ==
    /\ h1[a1].type = h2[a2].type
    /\ (h1[a1].children = 0) <=> (h2[a2].children = 0)
    /\ h1[a1].children # 0 =>
          LET e1 == h1[h1[a1].children].elems
              e2 == h2[h2[a2].children].elems
          IN  /\ Len(e1) = Len(e2)
              /\ \A i \in 1..Len(e1) : StructurallyEqual(h1, e1[i], h2, e2[i])

\* the addresses of the nodes and children arrays of the tree at address a
RECURSIVE TreeObjects(_, _)
TreeObjects(h, a) ==
    IF h[a].children = 0 THEN {a}
    ELSE LET e == h[h[a].children].elems
         IN  {a, h[a].children}
             \cup UNION {TreeObjects(h, e[i]) : i \in 1..Len(e)}

RECURSIVE Flatten(_)
Flatten(seqs) ==
    IF seqs = <<>> THEN <<>> ELSE seqs[1] \o Flatten(Tail(seqs))

\* the nodes of the input tree in preorder, below a node only if the handler
\* returns a node with children for it
RECURSIVE PreorderOf(_)
PreorderOf(node) ==
    LET o == heap0[node]
    IN  IF o.children = 0 \/ (handlerKind = "prune" /\ o.type = "b")
        THEN <<node>>
        ELSE LET e == heap0[o.children].elems
             IN  <<node>> \o Flatten([i \in 1..Len(e) |-> PreorderOf(e[i])])

\* C6: with the identity handler, no object or array of the input tree is
\* ever changed during the call, and the returned tree is structurally equal
\* to the input and has no node object and no children array in common
\* with it.
C6_IdentityMapIsPure ==
    handlerKind = "identity" =>
        /\ \A a \in DOMAIN heap0 : heap[a] = heap0[a]
        /\ mapPc = "done" =>
              /\ StructurallyEqual(heap0, ast, heap, mapResult)
              /\ TreeObjects(heap, mapResult) \cap TreeObjects(heap0, ast) = {}

\* mapAst has returned for the identity handler and a tree of depth 2 or more
\* with a node that has an empty children array
C6_Witness ==
    /\ handlerKind = "identity"
    /\ mapPc = "done"
    /\ \E k \in 1..Len(calls) : Len(calls[k].parentStack) >= 2
    /\ \E a \in DOMAIN heap0 : heap0[a].kind = "array" /\ heap0[a].elems = <<>>

\* C7: the handler is called on the nodes in preorder, each once; the root is
\* visited with index null and no ancestors; every other node is visited
\* with its position among its parent's children and with the ancestors
\* nearest first, each ancestor being the copy made of what the handler
\* returned for it: a new object, neither the input node nor the object the
\* handler returned.
C7_PreorderVisits ==
    mapPc # "idle" =>
        LET expected == PreorderOf(ast)
        IN  /\ Len(calls) <= Len(expected)
            /\ mapPc = "done" => Len(calls) = Len(expected)
            /\ \A k \in 1..Len(calls) :
                  LET c == calls[k]
                  IN  /\ c.node = expected[k]
                      /\ c.newNode \notin DOMAIN heap0
                      /\ c.newNode # c.returned
                      /\ heap[c.newNode].type = heap[c.returned].type
                      /\ IF c.node = ast
                         THEN c.index = -1 /\ c.parentStack = <<>>
                         ELSE \E j \in 1..(k - 1) :
                                 LET p == calls[j]
                                     e == heap0[heap0[p.node].children].elems
                                 IN  /\ heap0[p.node].children # 0
                                     /\ c.index + 1 \in 1..Len(e)
                                     /\ e[c.index + 1] = c.node
                                     /\ c.parentStack = <<p.newNode>> \o p.parentStack

\* mapAst has returned for the replacing handler; a node was visited at depth
\* 2, a node with index 1, and the visiting order is not the order of the
\* addresses
C7_Witness ==
    /\ handlerKind = "replace"
    /\ mapPc = "done"
    /\ \E k \in 1..Len(calls) : Len(calls[k].parentStack) >= 2
    /\ \E k \in 1..Len(calls) : calls[k].index = 1
    /\ \E k \in 1..(Len(calls) - 1) : calls[k].node > calls[k + 1].node

-----------------------------------------------------------------------------
(* Properties of isAutolink.                                               *)

\* C8: isAutolink returns for every node, and returns true if and only if
\* the node is a link with exactly one child whose start and end positions
\* equal the node's.
C8_TotalPredicate ==
    linkOutcome \notin {"idle", "pending"} =>
        /\ linkOutcome = "return"
        /\ linkValue <=>
              /\ ~linkNode.missing
              /\ linkNode.type = "link"
              /\ linkNode.hasChildren
              /\ Len(linkNode.children) = 1
              /\ linkNode.children[1].position.start.offset
                    = linkNode.position.start.offset
              /\ linkNode.children[1].position.end.offset
                    = linkNode.position.end.offset

\* the same for the nodes that are no link or have a children sequence
C8_PredicateWithChildren ==
    (linkOutcome \notin {"idle", "pending"}
        /\ (linkNode.missing \/ linkNode.type # "link" \/ linkNode.hasChildren)) =>
        /\ linkOutcome = "return"
        /\ linkValue <=>
              /\ ~linkNode.missing
              /\ linkNode.type = "link"
              /\ Len(linkNode.children) = 1
              /\ linkNode.children[1].position = linkNode.position

\* a link without a children sequence makes isAutolink throw
C8_ThrowsWithoutChildren ==
    (linkOutcome \notin {"idle", "pending"}
        /\ ~linkNode.missing /\ linkNode.type = "link" /\ ~linkNode.hasChildren) =>
        linkOutcome = "throw"

=============================================================================
